---- MODULE Spec2Model ----
(***************************************************************************)
(* A model of Shapeshift (src/unnamed/part_000): flattenObject,            *)
(* unflattenObject, cosineSimilarity, findClosestMatch, the constructor's  *)
(* threshold, calculateEmbeddings and shapeshift.                          *)
(*                                                                         *)
(* JavaScript strings are sequences of one-character strings, so that      *)
(* prefix + '.' + k and key.split('.') are computed, not assumed.          *)
(* A JavaScript value is a record [kind, val, ents]; a plain object's own  *)
(* properties are the sequence ents of [k, v] in Object.keys order.        *)
(***************************************************************************)
EXTENDS Integers, Sequences, FiniteSets, TLC

VARIABLES
  \* flattenObject and unflattenObject on a caller's tree
  fpc, tree, flat, back,
  \* the constructor's threshold and findClosestMatch
  mpc, thresholdOption, similarityThreshold, sourceEmbedding, targetEmbeddings,
  closest,
  \* one shapeshift call
  pc, sourceObj, targetObj, flattenedSourceObj, flattenedTargetObj,
  sourceKeys, targetKeys, sourceEmbeddings, flattenedResult, result, error,
  providerCalls, matchCalls,
  \* which calculateEmbeddings call the provider failed (0: none)
  failedCall,
  \* one calculateEmbeddings call and its requests to the provider
  epc, embeddingClient, apiKey, texts, inflight, settled, answered,
  embeddings, eerror

fvars == <<fpc, tree, flat, back>>

mvars == <<mpc, thresholdOption, similarityThreshold, sourceEmbedding,
           targetEmbeddings, closest>>

svars == <<pc, sourceObj, targetObj, flattenedSourceObj, flattenedTargetObj,
           sourceKeys, targetKeys, sourceEmbeddings, flattenedResult, result,
           error, providerCalls, matchCalls, failedCall>>

evars == <<epc, embeddingClient, apiKey, texts, inflight, settled, answered,
           embeddings, eerror>>

vars == <<fvars, mvars, svars, evars>>

------------------------------------------------------------------------------
(* JavaScript values *)

Scalar(t) == [kind |-> "scalar", val |-> t, ents |-> <<>>]
Null == [kind |-> "null", val |-> "null", ents |-> <<>>]
Array(t) == [kind |-> "array", val |-> t, ents |-> <<>>]
Obj(e) == [kind |-> "object", val |-> "", ents |-> e]
Undefined == [kind |-> "undefined", val |-> "undefined", ents |-> <<>>]
TypeError == [kind |-> "TypeError", val |-> "TypeError", ents |-> <<>>]
EmptyObj == Obj(<<>>)
\* a built-in function, such as the global Object
Function(name) == [kind |-> "function", val |-> name, ents |-> <<>>]

\* the scalars that are falsy in r[k] || {}
FalsyScalars == {"", "0", "false", "NaN"}

Truthy(v) ==
  \/ v.kind \in {"object", "array", "function"}
  \/ v.kind = "scalar" /\ v.val \notin FalsyScalars

\* typeof v === 'object'
TypeofObject(v) == v.kind \in {"object", "array", "null"}

IsNull(v) == v.kind = "null"

IsArray(v) == v.kind = "array"

\* a value properties can be set on: a primitive receiver makes the
\* assignment throw in strict mode (class bodies and modules are strict)
HasProperties(v) == v.kind \in {"object", "array", "function"}

------------------------------------------------------------------------------
(* Own properties in Object.keys order: canonical array indices first, in  *)
(* ascending numeric order, then the other string keys in creation order.  *)

Digits == {"0", "1", "2", "3", "4", "5", "6", "7", "8", "9"}

DigitVal(c) ==
  CASE c = "0" -> 0 [] c = "1" -> 1 [] c = "2" -> 2 [] c = "3" -> 3
    [] c = "4" -> 4 [] c = "5" -> 5 [] c = "6" -> 6 [] c = "7" -> 7
    [] c = "8" -> 8 [] c = "9" -> 9

IsIndex(k) ==
  /\ Len(k) >= 1
  /\ \A i \in 1..Len(k) : k[i] \in Digits
  /\ (Len(k) > 1 => k[1] # "0")

RECURSIVE NumVal(_)
NumVal(k) ==
  IF Len(k) = 0 THEN 0
  ELSE 10 * NumVal(SubSeq(k, 1, Len(k) - 1)) + DigitVal(k[Len(k)])

ObjectKeys(obj) == [i \in 1..Len(obj.ents) |-> obj.ents[i].k]

HasOwn(obj, k) == \E i \in 1..Len(obj.ents) : obj.ents[i].k = k

\* obj[k], of the own properties
Get(obj, k) ==
  IF HasOwn(obj, k)
  THEN obj.ents[CHOOSE i \in 1..Len(obj.ents) : obj.ents[i].k = k].v
  ELSE Undefined

KeyConstructor == <<"c", "o", "n", "s", "t", "r", "u", "c", "t", "o", "r">>

\* the names every object inherits a value for; 'constructor' stands for
\* them (toString, valueOf, hasOwnProperty, ... are like it)
InheritedKeys == {KeyConstructor}

\* r[k] as the read in r[k] || {} sees it: the own property or, failing
\* that, the one inherited through the prototype chain
GetProperty(r, k) ==
  IF HasOwn(r, k) THEN Get(r, k)
  ELSE IF k \in InheritedKeys
  THEN Function(CASE r.kind = "object" -> "Object"
                  [] r.kind = "array" -> "Array"
                  [] OTHER -> "Function")
  ELSE Undefined

\* the place a new key takes among the own properties
InsertPos(ents, k) ==
  IF IsIndex(k)
  THEN 1 + Cardinality({i \in 1..Len(ents) :
                          IsIndex(ents[i].k) /\ NumVal(ents[i].k) < NumVal(k)})
  ELSE Len(ents) + 1

\* obj[k] = v
Put(obj, k, v) ==
  IF HasOwn(obj, k)
  THEN [obj EXCEPT !.ents =
          [i \in 1..Len(obj.ents) |->
             IF obj.ents[i].k = k THEN [k |-> k, v |-> v] ELSE obj.ents[i]]]
  ELSE LET p == InsertPos(obj.ents, k) IN
       [obj EXCEPT !.ents =
          SubSeq(obj.ents, 1, p - 1) \o <<[k |-> k, v |-> v]>>
            \o SubSeq(obj.ents, p, Len(obj.ents))]

\* Object.assign(acc, from)
RECURSIVE ObjectAssignFrom(_, _, _)
ObjectAssignFrom(acc, from, i) ==
  IF i > Len(from.ents) THEN acc
  ELSE ObjectAssignFrom(Put(acc, from.ents[i].k, from.ents[i].v), from, i + 1)

ObjectAssign(acc, from) == ObjectAssignFrom(acc, from, 1)

------------------------------------------------------------------------------
(* Strings *)

Dot == "."

\* key.split('.')
RECURSIVE SplitFrom(_, _, _)
SplitFrom(s, i, cur) ==
  IF i > Len(s) THEN <<cur>>
  ELSE IF s[i] = Dot THEN <<cur>> \o SplitFrom(s, i + 1, <<>>)
  ELSE SplitFrom(s, i + 1, Append(cur, s[i]))

Split(s) == SplitFrom(s, 1, <<>>)

------------------------------------------------------------------------------
(* flattenObject and unflattenObject *)

\* the same without !Array.isArray(obj[k]): arrays are recursed into
RECURSIVE flattenObjectIntoArrays(_, _)
flattenObjectIntoArrays(obj, prefix) ==
  LET pre == IF Len(prefix) > 0 THEN prefix \o <<Dot>> ELSE <<>>
      keys == ObjectKeys(obj)
      RECURSIVE reduce(_, _)
      reduce(acc, i) ==
        IF i > Len(keys) THEN acc
        ELSE LET k == keys[i]
                 v == Get(obj, k)
             IN IF TypeofObject(v) /\ ~IsNull(v)
                THEN reduce(ObjectAssign(acc, flattenObjectIntoArrays(v, pre \o k)), i + 1)
                ELSE reduce(Put(acc, pre \o k, v), i + 1)
  IN reduce(EmptyObj, 1)

RECURSIVE flattenObject(_, _)
flattenObject(obj, prefix) ==
  LET pre == IF Len(prefix) > 0 THEN prefix \o <<Dot>> ELSE <<>>
      keys == ObjectKeys(obj)
      RECURSIVE reduce(_, _)
      reduce(acc, i) ==
        IF i > Len(keys) THEN acc
        ELSE LET k == keys[i]
                 v == Get(obj, k)
             IN IF TypeofObject(v) /\ ~IsNull(v) /\ ~IsArray(v)
                THEN reduce(ObjectAssign(acc, flattenObject(v, pre \o k)), i + 1)
                ELSE reduce(Put(acc, pre \o k, v), i + 1)
  IN reduce(EmptyObj, 1)

\* keys.reduce((r, k, i) => r[k] = i === last ? value : (r[k] || {}), r)
\* from segment i on: r after the assignments, or TypeError when one of
\* them has a primitive receiver
\* the same with r[k] || {} written {}: every path starts its own branch
RECURSIVE ReduceKeysFresh(_, _, _, _)
ReduceKeysFresh(r, keys, i, value) ==
  IF i = Len(keys) THEN Put(r, keys[i], value)
  ELSE Put(r, keys[i], ReduceKeysFresh(EmptyObj, keys, i + 1, value))

RECURSIVE ReduceKeys(_, _, _, _)
ReduceKeys(r, keys, i, value) ==
  IF ~HasProperties(r) THEN TypeError
  ELSE IF i = Len(keys) THEN Put(r, keys[i], value)
  ELSE LET cur == GetProperty(r, keys[i])
           nxt == IF Truthy(cur) THEN cur ELSE EmptyObj
           sub == ReduceKeys(nxt, keys, i + 1, value)
       IN IF sub = TypeError THEN TypeError ELSE Put(r, keys[i], sub)

RECURSIVE UnflattenFrom(_, _, _)
UnflattenFrom(res, obj, n) ==
  IF res = TypeError \/ n > Len(obj.ents) THEN res
  ELSE UnflattenFrom(
         ReduceKeys(res, Split(obj.ents[n].k), 1, obj.ents[n].v), obj, n + 1)

unflattenObject(obj) == UnflattenFrom(EmptyObj, obj, 1)

------------------------------------------------------------------------------
(* Numbers: n / d with d >= 0; 0/0 is NaN and -1/0 is -Infinity.  The      *)
(* vectors below have integer magnitudes, so every dot product, magnitude  *)
(* and quotient of cosineSimilarity is the exact rational the double       *)
(* arithmetic gives.                                                       *)

Number(n, d) == [kind |-> "number", n |-> n, d |-> d]
NaN == Number(0, 0)
NegInfinity == Number(-1, 0)
NoNumber == [kind |-> "undefined", n |-> 0, d |-> 0]

IsNaN(x) == x.n = 0 /\ x.d = 0

\* x > y
Gt(x, y) == ~IsNaN(x) /\ ~IsNaN(y) /\ x.n * y.d > y.n * x.d

\* x >= y
Ge(x, y) == ~IsNaN(x) /\ ~IsNaN(y) /\ x.n * y.d >= y.n * x.d

\* x || y on numbers and undefined
OrElse(x, y) ==
  IF x.kind = "undefined" \/ IsNaN(x) \/ (x.n = 0 /\ x.d # 0) THEN y ELSE x

\* Math.sqrt, on the perfect squares
Sqrt(n) == CHOOSE r \in 0..n : r * r = n

\* x / y on integers
Divide(x, y) == Number(IF y = 0 THEN (IF x > 0 THEN 1 ELSE IF x < 0 THEN -1 ELSE 0) ELSE x, y)

DefaultThreshold == Number(1, 2)

\* this.similarityThreshold = options.similarityThreshold || 0.5
ConstructorThreshold(option) == OrElse(option, DefaultThreshold)

RECURSIVE SumTo(_, _, _)
SumTo(vecA, vecB, i) ==
  IF i = 0 THEN 0 ELSE SumTo(vecA, vecB, i - 1) + vecA[i] * vecB[i]

cosineSimilarity(vecA, vecB) ==
  LET dotProduct == SumTo(vecA, vecB, Len(vecA))
      magnitudeA == Sqrt(SumTo(vecA, vecA, Len(vecA)))
      magnitudeB == Sqrt(SumTo(vecB, vecB, Len(vecB)))
  IN Divide(dotProduct, magnitudeA * magnitudeB)

\* similarity >= maxSimilarity in its place: the last of a tie wins
ExceedsOrEquals(similarity, maxSimilarity) == Ge(similarity, maxSimilarity)

\* !(similarity <= maxSimilarity) in its place: true of NaN
NotAtMost(similarity, maxSimilarity) == ~Ge(maxSimilarity, similarity)

\* similarity > maxSimilarity
Exceeds(similarity, maxSimilarity) == Gt(similarity, maxSimilarity)

\* maxSimilarity >= this.similarityThreshold
Accepts(maxSimilarity, threshold) == Ge(maxSimilarity, threshold)

\* maxSimilarity and closestIndex after the first n turns of the loop;
\* closestIndex counts from 0
RECURSIVE LoopState(_, _, _)
LoopState(source, targets, n) ==
  IF n = 0 THEN [maxSimilarity |-> NegInfinity, closestIndex |-> -1]
  ELSE LET before == LoopState(source, targets, n - 1)
           similarity == cosineSimilarity(source, targets[n])
       IN IF Exceeds(similarity, before.maxSimilarity)
          THEN [maxSimilarity |-> similarity, closestIndex |-> n - 1]
          ELSE before

NoMatch == [isNull |-> TRUE, index |-> 0]
Match(i) == [isNull |-> FALSE, index |-> i]

findClosestMatch(source, targets, threshold) ==
  LET end == LoopState(source, targets, Len(targets))
  IN IF Accepts(end.maxSimilarity, threshold)
     THEN Match(end.closestIndex)
     ELSE NoMatch

------------------------------------------------------------------------------
(* The constructor and one findClosestMatch call *)

MaxTargets == 3

Vectors == {<<0, 0>>, <<1, 0>>, <<0, 1>>, <<-1, 0>>, <<3, 4>>}

ThresholdOptions ==
  {NoNumber, Number(-1, 1), Number(-1, 2), Number(0, 1), Number(1, 2),
   Number(3, 5), Number(1, 1)}

EIdle ==
  /\ epc = "idle"
  /\ embeddingClient = "cohere"
  /\ apiKey = "key"
  /\ texts = <<>>
  /\ inflight = {}
  /\ settled = <<>>
  /\ answered = {}
  /\ embeddings = <<>>
  /\ eerror = "none"

SIdle ==
  /\ pc = "idle"
  /\ sourceObj = EmptyObj
  /\ targetObj = EmptyObj
  /\ flattenedSourceObj = EmptyObj
  /\ flattenedTargetObj = EmptyObj
  /\ sourceKeys = <<>>
  /\ targetKeys = <<>>
  /\ sourceEmbeddings = <<>>
  /\ flattenedResult = EmptyObj
  /\ result = Undefined
  /\ error = "none"
  /\ providerCalls = 0
  /\ matchCalls = 0
  /\ failedCall = 0

FIdle ==
  /\ fpc = "idle"
  /\ tree = EmptyObj
  /\ flat = EmptyObj
  /\ back = EmptyObj

MIdle ==
  /\ mpc = "idle"
  /\ thresholdOption = NoNumber
  /\ similarityThreshold = NoNumber
  /\ sourceEmbedding = <<>>
  /\ targetEmbeddings = <<>>
  /\ closest = NoMatch

MInit ==
  /\ mpc = "new"
  /\ thresholdOption \in ThresholdOptions
  /\ similarityThreshold = NoNumber
  /\ sourceEmbedding \in Vectors
  /\ targetEmbeddings = <<>>
  /\ closest = NoMatch
  /\ FIdle
  /\ SIdle
  /\ EIdle

Construct ==
  /\ mpc = "new"
  /\ similarityThreshold' = ConstructorThreshold(thresholdOption)
  /\ mpc' = "ready"
  /\ UNCHANGED <<thresholdOption, sourceEmbedding, targetEmbeddings, closest>>
  /\ UNCHANGED <<fvars, svars, evars>>

AddTarget ==
  /\ mpc = "ready"
  /\ Len(targetEmbeddings) < MaxTargets
  /\ \E v \in Vectors : targetEmbeddings' = Append(targetEmbeddings, v)
  /\ UNCHANGED <<mpc, thresholdOption, similarityThreshold, sourceEmbedding, closest>>
  /\ UNCHANGED <<fvars, svars, evars>>

FindClosestMatch ==
  /\ mpc = "ready"
  /\ closest' = findClosestMatch(sourceEmbedding, targetEmbeddings, similarityThreshold)
  /\ mpc' = "matched"
  /\ UNCHANGED <<thresholdOption, similarityThreshold, sourceEmbedding, targetEmbeddings>>
  /\ UNCHANGED <<fvars, svars, evars>>

MNext == Construct \/ AddTarget \/ FindClosestMatch

SpecMatch == MInit /\ [][MNext]_vars

\* the similarity of the source to target i (counting from 0)
Sim(i) == cosineSimilarity(sourceEmbedding, targetEmbeddings[i + 1])

TargetIndexes == 0..(Len(targetEmbeddings) - 1)

ValidIndexes == {i \in TargetIndexes : ~IsNaN(Sim(i))}

\* the indexes whose similarity is the maximum over the targets
MaxIndexes == {i \in ValidIndexes : \A j \in ValidIndexes : Ge(Sim(i), Sim(j))}

Min(S) == CHOOSE x \in S : \A y \in S : x <= y

\* C3: findClosestMatch returns null when the maximum similarity over the
\* targets is strictly below the threshold (or there is no similarity at
\* all), and otherwise the earliest index whose similarity is that maximum.
C3_ThresholdGating ==
  mpc = "matched" =>
    IF MaxIndexes = {} \/ \A i \in MaxIndexes : ~Ge(Sim(i), similarityThreshold)
    THEN closest = NoMatch
    ELSE closest = Match(Min(MaxIndexes))

C3_Witness ==
  /\ mpc = "matched"
  /\ ~closest.isNull
  /\ closest.index >= 1
  /\ Cardinality(MaxIndexes) >= 2
  /\ Sim(closest.index) = similarityThreshold

\* C7: the threshold findClosestMatch uses is the option passed, for every
\* number passed, and 0.5 only when the option is omitted.
C7_ThresholdIsOption ==
  mpc # "new" /\ mpc # "idle" =>
    similarityThreshold =
      IF thresholdOption = NoNumber THEN DefaultThreshold ELSE thresholdOption

Magnitude(v) == Sqrt(SumTo(v, v, Len(v)))

\* C9: a source of zero magnitude is matched to no target, a target of zero
\* magnitude is never the closest match, and a turn of the loop whose
\* similarity is NaN leaves maxSimilarity and closestIndex as they were.
C9_NaNIsNoMatch ==
  mpc = "matched" =>
    /\ Magnitude(sourceEmbedding) = 0 => closest = NoMatch
    /\ ~closest.isNull =>
         /\ closest.index \in TargetIndexes
         /\ Magnitude(targetEmbeddings[closest.index + 1]) # 0
    /\ \A n \in 1..Len(targetEmbeddings) :
         IsNaN(Sim(n - 1)) =>
           LoopState(sourceEmbedding, targetEmbeddings, n)
             = LoopState(sourceEmbedding, targetEmbeddings, n - 1)

C9_Witness ==
  /\ mpc = "matched"
  /\ Len(targetEmbeddings) >= 3
  /\ Magnitude(targetEmbeddings[1]) = 0
  /\ Magnitude(targetEmbeddings[3]) = 0
  /\ closest = Match(1)

------------------------------------------------------------------------------
(* The caller's trees, built one property at a time *)

MaxEntries == 3

KeyA == <<"a">>
KeyEmpty == <<>>
KeyDotted == <<"a", ".", "a">>

TreeKeys == {KeyA, KeyEmpty, KeyDotted, KeyConstructor}

TreeLeaves == {Scalar("A"), Null, Array("arr")}

RECURSIVE CountEntries(_)
CountEntries(v) ==
  IF v.kind # "object" \/ Len(v.ents) = 0 THEN 0
  ELSE LET RECURSIVE sum(_)
           sum(i) == IF i > Len(v.ents) THEN 0
                     ELSE 1 + CountEntries(v.ents[i].v) + sum(i + 1)
       IN sum(1)

\* the key sequences that lead from v to a nested plain object (v included)
RECURSIVE ObjectAddrs(_)
ObjectAddrs(v) ==
  {<<>>} \cup UNION {{<<v.ents[i].k>> \o a : a \in ObjectAddrs(v.ents[i].v)} :
                        i \in {j \in 1..Len(v.ents) : v.ents[j].v.kind = "object"}}

RECURSIVE GetAt(_, _)
GetAt(v, addr) ==
  IF Len(addr) = 0 THEN v ELSE GetAt(Get(v, addr[1]), Tail(addr))

\* v with the object at addr given the new property k: val
RECURSIVE PutAt(_, _, _, _)
PutAt(v, addr, k, val) ==
  IF Len(addr) = 0 THEN Put(v, k, val)
  ELSE Put(v, addr[1], PutAt(Get(v, addr[1]), Tail(addr), k, val))

FInit ==
  /\ fpc = "build"
  /\ tree = EmptyObj
  /\ flat = EmptyObj
  /\ back = EmptyObj
  /\ MIdle
  /\ SIdle
  /\ EIdle

AddProperty ==
  /\ fpc = "build"
  /\ CountEntries(tree) < MaxEntries
  /\ \E addr \in ObjectAddrs(tree), k \in TreeKeys, val \in TreeLeaves \cup {EmptyObj} :
       /\ ~HasOwn(GetAt(tree, addr), k)
       /\ tree' = PutAt(tree, addr, k, val)
  /\ UNCHANGED <<fpc, flat, back>>
  /\ UNCHANGED <<mvars, svars, evars>>

Flatten ==
  /\ fpc = "build"
  /\ flat' = flattenObject(tree, <<>>)
  /\ fpc' = "flattened"
  /\ UNCHANGED <<tree, back>>
  /\ UNCHANGED <<mvars, svars, evars>>

Unflatten ==
  /\ fpc = "flattened"
  /\ back' = unflattenObject(flat)
  /\ fpc' = "done"
  /\ UNCHANGED <<tree, flat>>
  /\ UNCHANGED <<mvars, svars, evars>>

FNext == AddProperty \/ Flatten \/ Unflatten

SpecFlatten == FInit /\ [][FNext]_vars

------------------------------------------------------------------------------
(* The target's paths: flattenObject(targetObj), and unflattenObject of a
   flat result keyed by two of them *)

MaxPathEntries == 4

TargetPathKeys == {KeyA, KeyEmpty, KeyDotted}

\* the target's values are placeholders
TargetPathLeaves == {Scalar("")}

\* the flat results the matching loop can build over two target paths, in
\* either order of writing
ResultsOver(f) ==
  {Obj(<<[k |-> f.ents[i].k, v |-> Scalar("A")],
         [k |-> f.ents[j].k, v |-> Scalar("B")]>>) :
     <<i, j>> \in {p \in (1..Len(f.ents)) \X (1..Len(f.ents)) : p[1] # p[2]}}

AddTargetPath ==
  /\ fpc = "build"
  /\ CountEntries(tree) < MaxPathEntries
  /\ \E addr \in ObjectAddrs(tree), k \in TargetPathKeys,
        val \in TargetPathLeaves \cup {EmptyObj} :
       /\ ~HasOwn(GetAt(tree, addr), k)
       /\ tree' = PutAt(tree, addr, k, val)
  /\ UNCHANGED <<fpc, flat, back>>
  /\ UNCHANGED <<mvars, svars, evars>>

FlattenTarget ==
  /\ fpc = "build"
  /\ flat' = flattenObject(tree, <<>>)
  /\ fpc' = "flattened"
  /\ UNCHANGED <<tree, back>>
  /\ UNCHANGED <<mvars, svars, evars>>

UnflattenResult ==
  /\ fpc = "flattened"
  /\ \E res \in ResultsOver(flat) : back' = unflattenObject(res)
  /\ fpc' = "done"
  /\ UNCHANGED <<tree, flat>>
  /\ UNCHANGED <<mvars, svars, evars>>

TNext == AddTargetPath \/ FlattenTarget \/ UnflattenResult

SpecTargetPaths == FInit /\ [][TNext]_vars

------------------------------------------------------------------------------
(* One shapeshift call.  Each await of calculateEmbeddings ends with one   *)
(* vector per text, or with the provider's error.                          *)

\* the properties of the source and of the target, taken together
MaxCallEntries == 4

KeyOne == <<"1">>
KeyTwo == <<"2">>
KeyQ == <<"q">>
KeyQDotQ == <<"q", ".", "q">>

SourceTreeKeys == {KeyOne, KeyTwo}
SourceLeaves == {Scalar("A"), Scalar("0")}
TargetTreeKeys == {KeyQ, KeyQDotQ, KeyConstructor}
TargetLeaves == {Scalar("")}

EmbeddingVectors == {<<1, 0>>, <<0, 1>>}

\* every list of one vector per text
RECURSIVE VectorLists(_)
VectorLists(n) ==
  IF n = 0 THEN {<<>>}
  ELSE {Append(l, v) : l \in VectorLists(n - 1), v \in EmbeddingVectors}

\* what an await of calculateEmbeddings(texts) can end with: one vector per
\* text, or the provider's error
Fulfilled(vs) == [ok |-> TRUE, vecs |-> vs]
Rejected == [ok |-> FALSE, vecs |-> <<>>]
Outcomes(n) == {Rejected} \cup {Fulfilled(vs) : vs \in VectorLists(n)}

\* the same inside try/catch with an empty list for the error
AwaitCaught(outcome) == IF outcome.ok THEN outcome ELSE Fulfilled(<<>>)

\* const x = await p: shapeshift has no try/catch, so a rejection of p is
\* what the await ends with
Await(outcome) == outcome

\* the same keeping the first value written to a target key
RECURSIVE MatchLoopKeepFirst(_, _)
MatchLoopKeepFirst(i, acc) ==
  IF i > Len(sourceKeys) THEN acc
  ELSE LET sourceKey == sourceKeys[i]
           closestTargetIndex ==
             findClosestMatch(sourceEmbeddings[i], targetEmbeddings', similarityThreshold)
       IN IF /\ ~closestTargetIndex.isNull
             /\ ~HasOwn(acc, targetKeys[closestTargetIndex.index + 1])
          THEN MatchLoopKeepFirst(i + 1,
                 Put(acc, targetKeys[closestTargetIndex.index + 1],
                     Get(flattenedSourceObj, sourceKey)))
          ELSE MatchLoopKeepFirst(i + 1, acc)

\* lines 147-156 from source key i on: the flat result
RECURSIVE MatchLoop(_, _)
MatchLoop(i, acc) ==
  IF i > Len(sourceKeys) THEN acc
  ELSE LET sourceKey == sourceKeys[i]
           closestTargetIndex ==
             findClosestMatch(sourceEmbeddings[i], targetEmbeddings', similarityThreshold)
       IN IF ~closestTargetIndex.isNull
          THEN MatchLoop(i + 1,
                 Put(acc, targetKeys[closestTargetIndex.index + 1],
                     Get(flattenedSourceObj, sourceKey)))
          ELSE MatchLoop(i + 1, acc)

Init ==
  /\ pc = "build"
  /\ sourceObj = EmptyObj
  /\ targetObj = EmptyObj
  /\ flattenedSourceObj = EmptyObj
  /\ flattenedTargetObj = EmptyObj
  /\ sourceKeys = <<>>
  /\ targetKeys = <<>>
  /\ sourceEmbeddings = <<>>
  /\ flattenedResult = EmptyObj
  /\ result = Undefined
  /\ error = "none"
  /\ providerCalls = 0
  /\ matchCalls = 0
  /\ failedCall = 0
  /\ FIdle
  /\ EIdle
  /\ mpc = "idle"
  /\ thresholdOption = Number(1, 2)
  /\ similarityThreshold = ConstructorThreshold(Number(1, 2))
  /\ sourceEmbedding = <<>>
  /\ targetEmbeddings = <<>>
  /\ closest = NoMatch

SRest == <<fvars, evars, mpc, thresholdOption, similarityThreshold, sourceEmbedding, closest>>

AddSourceProperty ==
  /\ pc = "build"
  /\ CountEntries(sourceObj) + CountEntries(targetObj) < MaxCallEntries
  /\ \E addr \in ObjectAddrs(sourceObj), k \in SourceTreeKeys,
        val \in SourceLeaves \cup {EmptyObj} :
       /\ ~HasOwn(GetAt(sourceObj, addr), k)
       /\ sourceObj' = PutAt(sourceObj, addr, k, val)
  /\ UNCHANGED <<pc, targetObj, flattenedSourceObj, flattenedTargetObj, sourceKeys,
                 targetKeys, sourceEmbeddings, flattenedResult, result, error,
                 providerCalls, matchCalls, failedCall, targetEmbeddings>>
  /\ UNCHANGED SRest

AddTargetProperty ==
  /\ pc = "build"
  /\ CountEntries(sourceObj) + CountEntries(targetObj) < MaxCallEntries
  /\ \E addr \in ObjectAddrs(targetObj), k \in TargetTreeKeys,
        val \in TargetLeaves \cup {EmptyObj} :
       /\ ~HasOwn(GetAt(targetObj, addr), k)
       /\ targetObj' = PutAt(targetObj, addr, k, val)
  /\ UNCHANGED <<pc, sourceObj, flattenedSourceObj, flattenedTargetObj, sourceKeys,
                 targetKeys, sourceEmbeddings, flattenedResult, result, error,
                 providerCalls, matchCalls, failedCall, targetEmbeddings>>
  /\ UNCHANGED SRest

\* lines 136-142, up to the first await
Shapeshift ==
  /\ pc = "build"
  /\ flattenedSourceObj' = flattenObject(sourceObj, <<>>)
  /\ flattenedTargetObj' = flattenObject(targetObj, <<>>)
  /\ sourceKeys' = ObjectKeys(flattenedSourceObj')
  /\ targetKeys' = ObjectKeys(flattenedTargetObj')
  /\ providerCalls' = providerCalls + 1
  /\ pc' = "awaitSource"
  /\ UNCHANGED <<sourceObj, targetObj, sourceEmbeddings, flattenedResult, result,
                 error, matchCalls, failedCall, targetEmbeddings>>
  /\ UNCHANGED SRest

\* the await of line 142 ends; line 143 calls calculateEmbeddings again
SourceAwaitEnds ==
  /\ pc = "awaitSource"
  /\ \E outcome \in Outcomes(Len(sourceKeys)) :
       /\ failedCall' = IF outcome.ok THEN failedCall ELSE 1
       /\ LET got == Await(outcome) IN
            IF got.ok
            THEN /\ sourceEmbeddings' = got.vecs
                 /\ providerCalls' = providerCalls + 1
                 /\ pc' = "awaitTarget"
                 /\ UNCHANGED error
            ELSE /\ pc' = "rejected"
                 /\ error' = "ProviderError"
                 /\ UNCHANGED <<sourceEmbeddings, providerCalls>>
  /\ UNCHANGED <<sourceObj, targetObj, flattenedSourceObj, flattenedTargetObj,
                 sourceKeys, targetKeys, flattenedResult, result, matchCalls,
                 targetEmbeddings>>
  /\ UNCHANGED SRest

\* the await of line 143 ends; lines 145-158 run
TargetAwaitEnds ==
  /\ pc = "awaitTarget"
  /\ \E outcome \in Outcomes(Len(targetKeys)) :
       /\ failedCall' = IF outcome.ok THEN failedCall ELSE 2
       /\ LET got == Await(outcome) IN
            IF got.ok
            THEN /\ targetEmbeddings' = got.vecs
                 /\ flattenedResult' = MatchLoop(1, EmptyObj)
                 /\ matchCalls' = matchCalls + Len(sourceKeys)
                 /\ LET unflattened == unflattenObject(flattenedResult') IN
                      IF unflattened = TypeError
                      THEN /\ pc' = "rejected"
                           /\ error' = "TypeError"
                           /\ UNCHANGED result
                      ELSE /\ pc' = "resolved"
                           /\ result' = unflattened
                           /\ UNCHANGED error
            ELSE /\ pc' = "rejected"
                 /\ error' = "ProviderError"
                 /\ UNCHANGED <<targetEmbeddings, flattenedResult, matchCalls, result>>
  /\ UNCHANGED <<sourceObj, targetObj, flattenedSourceObj, flattenedTargetObj,
                 sourceKeys, targetKeys, sourceEmbeddings, providerCalls>>
  /\ UNCHANGED SRest

Next ==
  \/ AddSourceProperty
  \/ AddTargetProperty
  \/ Shapeshift
  \/ SourceAwaitEnds
  \/ TargetAwaitEnds

Spec == Init /\ [][Next]_vars

------------------------------------------------------------------------------
(* One calculateEmbeddings(texts) call, request by request.  The provider  *)
(* answers a request with one vector per text of that request, or fails.   *)

MaxTexts == 3

EmbeddingClients == {"cohere", "openai", "voyage"}

\* flattened keys, all different, as Object.keys gives them
SomeTexts == <<KeyOne, KeyTwo, KeyQ, KeyQDotQ, <<"1", ".", "1">>, <<"2", ".", "1">>>>

\* the values gathered as the promises settle instead
PromiseAllAsSettled(n, done) == [j \in 1..n |-> done[j].v]

\* Promise.all: the values of the promises in the order of the promises,
\* whatever the order they settled in
PromiseAll(n, done) ==
  [i \in 1..n |-> done[CHOOSE j \in 1..Len(done) : done[j].i = i].v]

\* the provider's answers to a batch request, text by text
Answers(ts, vs) == {[text |-> ts[i], vec |-> vs[i]] : i \in 1..Len(ts)}

EInit ==
  /\ epc = "new"
  /\ embeddingClient \in EmbeddingClients
  /\ apiKey \in {"", "key"}
  /\ \E n \in 0..MaxTexts : texts = SubSeq(SomeTexts, 1, n)
  /\ inflight = {}
  /\ settled = <<>>
  /\ answered = {}
  /\ embeddings = <<>>
  /\ eerror = "none"
  /\ FIdle
  /\ MIdle
  /\ SIdle

ERest == <<fvars, mvars, svars>>

\* lines 49-54 and 66-80: one request carries every text
CallBatch ==
  /\ epc = "new"
  /\ \/ embeddingClient = "cohere"
     \/ embeddingClient = "voyage" /\ apiKey # ""
  /\ inflight' = {0}
  /\ epc' = "awaiting"
  /\ UNCHANGED <<embeddingClient, apiKey, texts, settled, answered, embeddings, eerror>>
  /\ UNCHANGED ERest

\* lines 56-62: texts.map starts one request per text, then Promise.all
CallPerText ==
  /\ epc = "new"
  /\ embeddingClient = "openai"
  /\ inflight' = 1..Len(texts)
  /\ epc' = "awaiting"
  /\ UNCHANGED <<embeddingClient, apiKey, texts, settled, answered, embeddings, eerror>>
  /\ UNCHANGED ERest

\* lines 82-84: this.voyageApiKey is '' and so falsy
CallUninitialized ==
  /\ epc = "new"
  /\ embeddingClient = "voyage" /\ apiKey = ""
  /\ epc' = "rejected"
  /\ eerror' = "Embedding client not properly initialized"
  /\ UNCHANGED <<embeddingClient, apiKey, texts, inflight, settled, answered, embeddings>>
  /\ UNCHANGED ERest

\* lines 55 and 81: the batch response's vectors, in the response's order
BatchResponds ==
  /\ epc = "awaiting"
  /\ inflight = {0}
  /\ \E vs \in VectorLists(Len(texts)) :
       /\ answered' = Answers(texts, vs)
       /\ embeddings' = vs
  /\ inflight' = {}
  /\ epc' = "resolved"
  /\ UNCHANGED <<embeddingClient, apiKey, texts, settled, eerror>>
  /\ UNCHANGED ERest

\* line 63: the request for texts[i] is answered and its promise fulfilled
TextResponds ==
  /\ \E i \in inflight \ {0}, v \in EmbeddingVectors :
       /\ inflight' = inflight \ {i}
       /\ answered' = answered \cup {[text |-> texts[i], vec |-> v]}
       /\ settled' = Append(settled, [i |-> i, v |-> v])
  /\ UNCHANGED <<epc, embeddingClient, apiKey, texts, embeddings, eerror>>
  /\ UNCHANGED ERest

\* a request fails: the first failure rejects Promise.all and so the call;
\* the requests still in flight are left to finish
RequestFails ==
  /\ \E i \in inflight :
       inflight' = inflight \ {i}
  /\ IF epc = "awaiting"
     THEN epc' = "rejected" /\ eerror' = "ProviderError"
     ELSE UNCHANGED <<epc, eerror>>
  /\ UNCHANGED <<embeddingClient, apiKey, texts, settled, answered, embeddings>>
  /\ UNCHANGED ERest

\* lines 57 and 65: every promise is fulfilled, Promise.all gives the list
AllFulfilled ==
  /\ epc = "awaiting"
  /\ embeddingClient = "openai"
  /\ inflight = {}
  /\ embeddings' = PromiseAll(Len(texts), settled)
  /\ epc' = "resolved"
  /\ UNCHANGED <<embeddingClient, apiKey, texts, inflight, settled, answered, eerror>>
  /\ UNCHANGED ERest

ENext ==
  \/ CallBatch
  \/ CallPerText
  \/ CallUninitialized
  \/ BatchResponds
  \/ TextResponds
  \/ RequestFails
  \/ AllFulfilled

SpecEmbed == EInit /\ [][ENext]_vars

\* C8: with openai, the list calculateEmbeddings returns for N texts has N
\* vectors and its i-th vector is the provider's answer to the request for
\* the i-th text, in whatever order the requests were answered.
C8_OrderAlignment ==
  (epc = "resolved" /\ embeddingClient = "openai") =>
    /\ Len(embeddings) = Len(texts)
    /\ \A i \in 1..Len(texts) :
         [text |-> texts[i], vec |-> embeddings[i]] \in answered

C8_Witness ==
  /\ epc = "resolved"
  /\ embeddingClient = "openai"
  /\ Len(texts) >= 3
  /\ settled[1].i = 3
  /\ settled[2].i = 1
  /\ embeddings[1] # embeddings[3]

------------------------------------------------------------------------------
(* What the claims about flattenObject and unflattenObject speak of *)

IsNested(v) == v.kind = "object"

\* a tree up to the order of its keys
RECURSIVE Canon(_)
Canon(v) ==
  [kind |-> v.kind, val |-> v.val,
   ents |-> {<<v.ents[i].k, Canon(v.ents[i].v)>> : i \in 1..Len(v.ents)}]

\* the key sequences that lead from the root to a leaf
RECURSIVE LeafAddrs(_)
LeafAddrs(v) ==
  UNION {IF IsNested(v.ents[i].v)
         THEN {<<v.ents[i].k>> \o a : a \in LeafAddrs(v.ents[i].v)}
         ELSE {<<v.ents[i].k>>} : i \in 1..Len(v.ents)}

\* the segments joined by '.'
RECURSIVE Join(_)
Join(addr) ==
  IF Len(addr) = 0 THEN <<>>
  ELSE IF Len(addr) = 1 THEN addr[1]
  ELSE addr[1] \o <<Dot>> \o Join(Tail(addr))

RECURSIVE AllKeys(_)
AllKeys(v) ==
  {v.ents[i].k : i \in 1..Len(v.ents)}
    \cup UNION {AllKeys(v.ents[i].v) : i \in 1..Len(v.ents)}

NoDotKeys(v) == \A k \in AllKeys(v) : \A i \in 1..Len(k) : k[i] # Dot

\* the root holds a nested object under the key ''
RootEmptyKeyObject(v) == IsNested(Get(v, <<>>))

\* a nested object sits under a key every object inherits a value for
RECURSIVE HasNestedUnderInherited(_)
HasNestedUnderInherited(v) ==
  \E i \in 1..Len(v.ents) :
    /\ IsNested(v.ents[i].v)
    /\ (v.ents[i].k \in InheritedKeys \/ HasNestedUnderInherited(v.ents[i].v))

RECURSIVE HasEmptyNested(_)
HasEmptyNested(v) ==
  \E i \in 1..Len(v.ents) :
    /\ IsNested(v.ents[i].v)
    /\ (Len(v.ents[i].v.ents) = 0 \/ HasEmptyNested(v.ents[i].v))

OneEntryPerLeaf(t, f) ==
  /\ Len(f.ents) = Cardinality(LeafAddrs(t))
  /\ \A a, b \in LeafAddrs(t) : a # b => Join(a) # Join(b)
  /\ \A a \in LeafAddrs(t) : HasOwn(f, Join(a)) /\ Get(f, Join(a)) = GetAt(t, a)

IsPrefixOf(p, q) ==
  /\ Len(q) >= Len(p) + 1
  /\ SubSeq(q, 1, Len(p)) = p
  /\ q[Len(p) + 1] = Dot

PrefixFree(f) ==
  \A i, j \in 1..Len(f.ents) : ~IsPrefixOf(f.ents[i].k, f.ents[j].k)

\* unflattenObject meets, at a segment that is not the last, a property
\* that already holds a leaf
RECURSIVE WalksLeaf(_, _, _)
WalksLeaf(r, keys, i) ==
  /\ i < Len(keys)
  /\ HasProperties(r)
  /\ LET cur == Get(r, keys[i]) IN
       \/ cur.kind \notin {"undefined", "object"}
       \/ WalksLeaf(IF Truthy(cur) THEN cur ELSE EmptyObj, keys, i + 1)

\* C10: when no key of the target contains '.', the paths of
\* flattenObject(target) are prefix-free, and unflattenObject never walks
\* through a segment holding a leaf, nor throws, on a flat result keyed by them.
C10_PrefixFree ==
  (fpc # "build" /\ NoDotKeys(tree)) =>
    /\ PrefixFree(flat)
    /\ \A res \in ResultsOver(flat) :
         /\ unflattenObject(res) # TypeError
         /\ ~WalksLeaf(ReduceKeys(EmptyObj, Split(res.ents[1].k), 1, res.ents[1].v),
                       Split(res.ents[2].k), 1)

------------------------------------------------------------------------------
(* What the claims about shapeshift speak of *)

\* the target index findClosestMatch gave source key i, once both lists are in
MatchOf(i) == findClosestMatch(sourceEmbeddings[i], targetEmbeddings, similarityThreshold)

\* the source keys matched to the target path q
MatchedTo(q) ==
  {i \in 1..Len(sourceKeys) :
     /\ ~MatchOf(i).isNull
     /\ targetKeys[MatchOf(i).index + 1] = q}

Range(f) == {f[i] : i \in 1..Len(f)}

Max(S) == CHOOSE x \in S : \A y \in S : x >= y

\* the leaf paths of a tree in depth-first order, siblings in key order
RECURSIVE DepthFirstPaths(_, _)
DepthFirstPaths(v, addr) ==
  LET RECURSIVE from(_)
      from(i) ==
        IF i > Len(v.ents) THEN <<>>
        ELSE (IF IsNested(v.ents[i].v)
              THEN DepthFirstPaths(v.ents[i].v, Append(addr, v.ents[i].k))
              ELSE <<Join(Append(addr, v.ents[i].k))>>) \o from(i + 1)
  IN from(1)

\* the value of the source leaf that is last, in the order of paths, among
\* those matched to q
LastMatched(paths, q) ==
  LET matched == {sourceKeys[i] : i \in MatchedTo(q)}
  IN Get(flattenedSourceObj, paths[Max({j \in 1..Len(paths) : paths[j] \in matched})])

\* q and another path the flat result holds are one a '.'-prefix of the other
Collides(q) ==
  \E i \in 1..Len(flattenedResult.ents) :
    \/ IsPrefixOf(q, flattenedResult.ents[i].k)
    \/ IsPrefixOf(flattenedResult.ents[i].k, q)

SameLeaf(v, w) == v.kind = w.kind /\ v.val = w.val

ResultPaths == {Join(a) : a \in LeafAddrs(result)}

\* C5: every leaf path of the result is a path of flatten(target) and holds
\* the value of a source leaf matched to it; a target leaf nothing was
\* matched to is absent; with no match at all the result is the empty tree.
C5_OnlyMatchedLeaves ==
  pc = "resolved" =>
    /\ \A a \in LeafAddrs(result) :
         /\ Join(a) \in Range(targetKeys)
         /\ \E i \in MatchedTo(Join(a)) :
              SameLeaf(GetAt(result, a), Get(flattenedSourceObj, sourceKeys[i]))
    /\ \A q \in Range(targetKeys) : MatchedTo(q) = {} => q \notin ResultPaths
    /\ (\A i \in 1..Len(sourceKeys) : MatchOf(i).isNull) => result = EmptyObj

\* C6: once the provider has failed a calculateEmbeddings call, shapeshift
\* is rejected with that error, has no result, flat or tree, has run no
\* findClosestMatch and has made no provider call after the failed one.
C6_ProviderErrorFailsCall ==
  failedCall # 0 =>
    /\ pc = "rejected"
    /\ error = "ProviderError"
    /\ result = Undefined
    /\ flattenedResult = EmptyObj
    /\ matchCalls = 0
    /\ providerCalls = failedCall

C6_Witness ==
  /\ failedCall = 2
  /\ pc = "rejected"
  /\ Len(sourceEmbeddings) >= 2
  /\ Len(targetKeys) >= 1

====
